---- MODULE Spec2Model ----
(***************************************************************************)
(* cvshapeinverter: the authoring operation invert() of                    *)
(* scripts/cvshapeinverter.py and the deformer node cvShapeInverter in its *)
(* two revisions, plug-ins/cvShapeInverter.py (revision "A", with the       *)
(* activate attribute) and plug-ins/cvshapeinverter_plugin.py (revision    *)
(* "B", with the unconnected-mesh and empty-array guards).                 *)
(*                                                                         *)
(* Numbers.  Coordinates are fixed-point integers; one model unit is       *)
(* 0.0005 scene units, so the probe step 1.0 is ProbeStep units and the    *)
(* threshold 0.001 is Epsilon units.  A matrix is a record [n, d]: the     *)
(* 4x4 table n of numerators over the common denominator d.  d = 0 is a    *)
(* matrix of non-finite entries.  A product that does not fall on the grid *)
(* is rounded down.                                                        *)
(*                                                                         *)
(* The node type cvShapeInverter is provided by one of the two plug-in      *)
(* files (rev); invert() creates and populates a node of that type.        *)
(*                                                                         *)
(* Host behaviour assumed: a function set built on a null MObject raises   *)
(* RuntimeError when used (MFnPointArrayData.copyTo, MFnMesh.getPoints);   *)
(* reading an MPointArray past its end is undefined, and so is the value   *)
(* MMatrix.inverse() returns for a singular matrix: both are choices.      *)
(***************************************************************************)
EXTENDS Integers, Sequences, FiniteSets, TLC

\* ---------------------------------------------------------------- bounds
NumVerts == 2
MaxSel == 3
MaxStale == 1

\* ------------------------------------------------------ program constants
ProbeStep == 2000
Epsilon == 2

\* ------------------------------------------------------------- arithmetic
Abs(x) == IF x < 0 THEN -x ELSE x

RECURSIVE Gcd(_, _)
Gcd(a, b) == IF b = 0 THEN Abs(a) ELSE Gcd(b, a % Abs(b))

NaNPoint == <<>>
IsFinite(p) == Len(p) = 3

PointSub(p, q) == <<p[1] - q[1], p[2] - q[2], p[3] - q[3]>>
PointAdd(p, v) ==
    IF IsFinite(p) /\ IsFinite(v)
    THEN <<p[1] + v[1], p[2] + v[2], p[3] + v[3]>>
    ELSE NaNPoint

\* OpenMaya.MMatrix(): the identity.
MMatrix ==
    [n |-> << <<ProbeStep, 0, 0, 0>>, <<0, ProbeStep, 0, 0>>,
              <<0, 0, ProbeStep, 0>>, <<0, 0, 0, ProbeStep>> >>,
     d |-> ProbeStep]

set_matrix_cell(matrix, value, row, column) ==
    [matrix EXCEPT !.n[row][column] = value]

\* The y component is written to columns 2 and 3.
set_matrix_row_yy(matrix, new_vector, row) ==
    set_matrix_cell(
        set_matrix_cell(
            set_matrix_cell(matrix, new_vector[1], row, 1),
            new_vector[2], row, 2),
        new_vector[2], row, 3)

\* set_matrix_row, lines 192-201.
set_matrix_row(matrix, new_vector, row) ==
    set_matrix_cell(
        set_matrix_cell(
            set_matrix_cell(matrix, new_vector[1], row, 1),
            new_vector[2], row, 2),
        new_vector[3], row, 3)

Det3(m) ==
      m[1][1] * (m[2][2] * m[3][3] - m[2][3] * m[3][2])
    - m[1][2] * (m[2][1] * m[3][3] - m[2][3] * m[3][1])
    + m[1][3] * (m[2][1] * m[3][2] - m[2][2] * m[3][1])

\* Adjugate (transposed cofactors) of a 3x3 table.
Adj3(m) ==
    << << m[2][2] * m[3][3] - m[2][3] * m[3][2],
          m[1][3] * m[3][2] - m[1][2] * m[3][3],
          m[1][2] * m[2][3] - m[1][3] * m[2][2] >>,
       << m[2][3] * m[3][1] - m[2][1] * m[3][3],
          m[1][1] * m[3][3] - m[1][3] * m[3][1],
          m[1][3] * m[2][1] - m[1][1] * m[2][3] >>,
       << m[2][1] * m[3][2] - m[2][2] * m[3][1],
          m[1][2] * m[3][1] - m[1][1] * m[3][2],
          m[1][1] * m[2][2] - m[1][2] * m[2][1] >> >>

Linear(matrix) == [r \in 1..3 |-> [c \in 1..3 |-> matrix.n[r][c]]]

LinearGcd(l) ==
    Gcd(l[1][1], Gcd(l[1][2], Gcd(l[1][3],
    Gcd(l[2][1], Gcd(l[2][2], Gcd(l[2][3],
    Gcd(l[3][1], Gcd(l[3][2], l[3][3]))))))))

\* The linear block with its common factor taken out; the zero block is left.
Reduced(l) ==
    IF LinearGcd(l) = 0 THEN l
    ELSE [r \in 1..3 |-> [c \in 1..3 |-> l[r][c] \div LinearGcd(l)]]

IsSingular(matrix) == Det3(Reduced(Linear(matrix))) = 0

RowTimes(v, m) ==
    << v[1] * m[1][1] + v[2] * m[2][1] + v[3] * m[3][1],
       v[1] * m[1][2] + v[2] * m[2][2] + v[3] * m[3][2],
       v[1] * m[1][3] + v[2] * m[2][3] + v[3] * m[3][3] >>

\* What MMatrix.inverse() may hand back for a singular matrix.
SingularOutcomes == {"nonfinite", "unchanged"}

NonFiniteMatrix == [n |-> MMatrix.n, d |-> 0]

\* MMatrix.inverse() of an affine matrix (column 4 is 0,0,0,1), exactly:
\* with L the linear block and t row 4, the inverse has linear block
\* inverse(L), row 4 equal to -t*inverse(L), and column 4 unchanged.
Inverse(matrix, outcome) ==
    LET l    == Linear(matrix)
        g    == LinearGcd(l)
        red  == Reduced(l)
        det  == Det3(red)
        sgn  == IF det < 0 THEN -1 ELSE 1
        adj  == Adj3(red)
        t    == <<matrix.n[4][1], matrix.n[4][2], matrix.n[4][3]>>
        tadj == RowTimes(t, adj)
        den  == g * det * sgn
    IN  IF det = 0
        THEN IF outcome = "nonfinite" THEN NonFiniteMatrix ELSE matrix
        ELSE [n |-> << <<sgn * matrix.d * adj[1][1], sgn * matrix.d * adj[1][2],
                         sgn * matrix.d * adj[1][3], 0>>,
                       <<sgn * matrix.d * adj[2][1], sgn * matrix.d * adj[2][2],
                         sgn * matrix.d * adj[2][3], 0>>,
                       <<sgn * matrix.d * adj[3][1], sgn * matrix.d * adj[3][2],
                         sgn * matrix.d * adj[3][3], 0>>,
                       <<-(sgn * tadj[1]), -(sgn * tadj[2]), -(sgn * tadj[3]), den>> >>,
              d |-> den]

\* MVector * MMatrix: the linear block only, no translation.
VectorTimesMatrix(delta, matrix) ==
    IF matrix.d = 0 THEN NaNPoint
    ELSE LET p == RowTimes(delta, matrix.n)
         IN  <<p[1] \div matrix.d, p[2] \div matrix.d, p[3] \div matrix.d>>


\* ------------------------------------------------------------------ scene
Verts == 1..NumVerts

\* Rest positions of the intermediate (original) mesh of the base.
RestPoint(i) == <<(i - 1) * ProbeStep, 0, 0>>
RestPoints == [i \in Verts |-> RestPoint(i)]

\* The upstream deformation chain at one vertex: its response, in whole
\* scene units, to a displacement of the original point along x, y and z.
ChainNames == {"identity", "skew", "singular"}
ChainResponse(name) ==
    CASE name = "identity" -> << <<1, 0, 0>>, <<0, 1, 0>>, <<0, 0, 1>> >>
      [] name = "skew"     -> << <<2, 0, 0>>, <<1, 1, 0>>, <<0, 0, 1>> >>
      [] name = "singular" -> << <<1, 0, 0>>, <<1, 0, 0>>, <<1, 0, 0>> >>

\* A chain is the identity except at one vertex at most.
Chains ==
    {[i \in 1..NumVerts |-> "identity"]} \cup
    {[i \in 1..NumVerts |-> IF i = k THEN c ELSE "identity"] :
        k \in 1..NumVerts, c \in ChainNames \ {"identity"}}

\* Sculpted offsets of a corrective point from the posed base: none, one
\* below the threshold, one with x exactly at the threshold, a visible one.
NoDelta == <<0, 0, 0>>
Deltas == {NoDelta, <<1, -1, 0>>, <<Epsilon, 0, -1>>, <<400, 0, -200>>}

\* A sculpt moves one vertex of the corrective mesh at most, or all of them.
Sculpts ==
    {[i \in 1..NumVerts |-> NoDelta]} \cup
    {[i \in 1..NumVerts |-> IF i = k THEN d ELSE NoDelta] :
        k \in 1..NumVerts, d \in Deltas \ {NoDelta}} \cup
    {[i \in 1..NumVerts |-> IF i = 1 THEN <<1, -1, 0>> ELSE <<400, 0, -200>>]}

\* The sculpts tried on a node of cvShapeInverter.py: none, a visible one
\* at the first vertex, all vertices moved.
CoarseSculpts ==
    {[i \in 1..NumVerts |-> NoDelta],
     [i \in 1..NumVerts |-> IF i = 1 THEN <<400, 0, -200>> ELSE NoDelta],
     [i \in 1..NumVerts |-> IF i = 1 THEN <<1, -1, 0>> ELSE <<400, 0, -200>>]}

\* An MPointArray read past its end: raise, or hand back whatever is there.
OobOutcomes == {"raise", "garbage"}
GarbagePoint == <<0, 0, 0>>
ExtraPoint == <<ProbeStep, ProbeStep, ProbeStep>>

NullData == [isNull |-> TRUE, pts |-> <<>>]
PointData(points) == [isNull |-> FALSE, pts |-> points]

VARIABLES
    rev,                \* which plug-in file registered the node type
    baseNode,           \* cmds.nodeType(base): "transform" or "mesh"
    intermediate,       \* the base has a connected intermediate shape
    chain,              \* per vertex, the name of the chain response
    origPts,            \* points of the intermediate mesh of the base
    corrPts,            \* points of the corrective mesh
    pc, err,            \* position in invert(), error raised
    opens, closes,      \* undoInfo(openChunk) / undoInfo(closeChunk) issued
    base_points, corrective_points, orig_points,
    x_points, y_points, z_points,
    mi,                 \* loop index of the matrix loop (0-based)
    inverted,           \* points of the duplicated mesh, <<>> before it exists
    deformerExists,
    plugMatrix,         \* inversionMatrix array, logical index 0.. as 1..
    plugDeformedPoints, \* deformedPoints attribute data
    corrConnected,      \* correctiveMesh connected
    initialized, matrices, deformedPoints,   \* the node instance
    outPts,             \* geometry the last evaluation produced
    last                \* the most recent operation

scene   == <<rev, baseNode, intermediate, chain, corrPts>>
locals  == <<base_points, corrective_points, orig_points, x_points, y_points, z_points>>
graph   == <<inverted, deformerExists, plugMatrix, plugDeformedPoints, corrConnected>>
node    == <<initialized, matrices, deformedPoints>>
vars    == <<rev, baseNode, intermediate, chain, origPts, corrPts, pc, err, opens, closes,
             base_points, corrective_points, orig_points, x_points, y_points,
             z_points, mi, inverted, deformerExists, plugMatrix,
             plugDeformedPoints, corrConnected, initialized, matrices,
             deformedPoints, outPts, last>>

\* get_points(base): the intermediate mesh pushed through the chain.
ChainOut(points) ==
    [i \in Verts |-> RowTimes(points[i], ChainResponse(chain[i]))]

get_points_base == ChainOut(origPts)

Offset(points, axis) ==
    [i \in Verts |-> [points[i] EXCEPT ![axis] = @ + ProbeStep]]

ToSeq(f, n) == [i \in 1..n |-> f[i]]

Invoke(status) ==
    [op |-> "invert", activate |-> "none", status |-> status, call |-> <<>>]
Called(status, base, corrective, selCount) ==
    [op |-> "invert", activate |-> "none", status |-> status,
     call |-> <<base, corrective, selCount>>]

\* Lines 92-96: the frame of vertex i.
Frame(xp, yp, zp, bp, cp) ==
    set_matrix_row(
        set_matrix_row(
            set_matrix_row(
                set_matrix_row(MMatrix, PointSub(xp, bp), 1),
                PointSub(yp, bp), 2),
            PointSub(zp, bp), 3),
        cp, 4)

\* The inversionMatrix element of vertex i as lines 92-98 compute it from the
\* scene at rest.
StoredMatrix(i, outcome) ==
    Inverse(Frame(ChainOut(Offset(RestPoints, 1))[i],
                  ChainOut(Offset(RestPoints, 2))[i],
                  ChainOut(Offset(RestPoints, 3))[i],
                  ChainOut(RestPoints)[i],
                  IF i <= Len(corrPts) THEN corrPts[i] ELSE GarbagePoint),
            outcome)

\* The inversionMatrix array (a storable array attribute, cvShapeInverter.py
\* lines 115-118) holding the elements of the first k vertices.
StoredMatrices(k, outcome) == [i \in 1..k |-> StoredMatrix(i, outcome)]

Init ==
    /\ rev \in {"A", "B"}
    /\ baseNode \in {"transform", "mesh"}
    /\ intermediate \in BOOLEAN
    /\ chain \in Chains
    \* a bare mesh node has no shape below it and no chain above it
    /\ baseNode = "mesh" => (~intermediate /\ \A i \in Verts : chain[i] = "identity")
    \* the base matters to invert() only, which stops at line 31 where
    \* cvShapeInverter.py is registered
    /\ rev = "A" => (baseNode = "transform" /\ intermediate)
    /\ origPts = RestPoints
    /\ \E d \in (IF rev = "A" THEN CoarseSculpts ELSE Sculpts),
          n \in {NumVerts - 1, NumVerts, NumVerts + 1} :
          corrPts = [i \in 1..n |->
                        IF i <= NumVerts
                        THEN PointAdd(RowTimes(RestPoint(i), ChainResponse(chain[i])), d[i])
                        ELSE ExtraPoint]
    /\ pc = "idle" /\ err = "none"
    /\ opens = 0 /\ closes = 0
    /\ base_points = <<>> /\ corrective_points = <<>> /\ orig_points = <<>>
    /\ x_points = <<>> /\ y_points = <<>> /\ z_points = <<>>
    /\ mi = 0
    /\ IF rev = "A"
       THEN \* no run of invert() reaches a node of cvShapeInverter.py: the
            \* node is on a copy of the original mesh and its plugs hold
            \* what the host has stored in them
            /\ inverted = ToSeq(RestPoints, NumVerts)
            /\ deformerExists = TRUE
            /\ \E k \in 0..NumVerts, outcome \in SingularOutcomes :
                  plugMatrix = StoredMatrices(k, outcome)
            /\ plugDeformedPoints \in
                  {NullData, PointData(ToSeq(get_points_base, NumVerts))}
            /\ corrConnected \in BOOLEAN
            /\ outPts = ToSeq(RestPoints, NumVerts)
       ELSE /\ inverted = <<>>
            /\ deformerExists = FALSE
            /\ plugMatrix = <<>>
            /\ plugDeformedPoints = NullData
            /\ corrConnected = FALSE
            /\ outPts = <<>>
    /\ initialized = FALSE /\ matrices = <<>> /\ deformedPoints = <<>>
    /\ last = [op |-> "none", activate |-> "none", status |-> "none", call |-> <<>>]

\* ---------------------------------------------------------------- invert
\* get_shape(node, intermediate=True), lines 115-135: on a transform the
\* first intermediate shape with an outgoing worldMesh connection, or
\* RuntimeError; on a mesh node the node itself, whatever `intermediate`.
get_shape(nodeType, hasConnectedIntermediate) ==
    IF nodeType = "transform"
    THEN IF hasConnectedIntermediate THEN "intermediate" ELSE "RuntimeError"
    ELSE "node"

\* Line 31: loadPlugin('cvshapeinverter_plugin.py') runs that file's
\* initializePlugin, whose registerNode is refused where cvShapeInverter.py
\* has registered the same type name and id; loadPlugin then raises.
loadPlugin(registered) == IF registered = "A" THEN "RuntimeError" ELSE "loaded"

\* Line 32: not base or not corrective.
NotBothGiven(base, corrective) == base = "None" \/ corrective = "None"

\* Line 34: not sel or len(sel) != 2.
BadSelection(selCount) == selCount = 0 \/ selCount # 2

\* Lines 31-59: the plug-in load, arguments or selection, the point reads,
\* the intermediate shape, openChunk, the three offset copies of the
\* original points.
InvertBegin(base, corrective, selCount) ==
    /\ pc = "idle"
    /\ IF loadPlugin(rev) = "RuntimeError"
       THEN /\ pc' = "raised" /\ err' = "Plug-in was not loaded"
            /\ last' = Called("raised", base, corrective, selCount)
            /\ UNCHANGED <<opens, closes, locals>>
       ELSE IF NotBothGiven(base, corrective) /\ BadSelection(selCount)
       THEN /\ closes' = closes + 1
            /\ pc' = "raised" /\ err' = "Select base then corrective"
            /\ last' = Called("raised", base, corrective, selCount)
            /\ UNCHANGED <<opens, locals>>
       ELSE IF get_shape(baseNode, intermediate) = "RuntimeError"
       THEN /\ pc' = "raised" /\ err' = "Could not find shape on node"
            /\ last' = Called("raised", base, corrective, selCount)
            /\ UNCHANGED <<opens, closes, locals>>
       ELSE /\ base_points' = ToSeq(get_points_base, NumVerts)
            /\ corrective_points' = corrPts
            /\ orig_points' = ToSeq(origPts, NumVerts)
            /\ x_points' = ToSeq(Offset(origPts, 1), NumVerts)
            /\ y_points' = ToSeq(Offset(origPts, 2), NumVerts)
            /\ z_points' = ToSeq(Offset(origPts, 3), NumVerts)
            /\ opens' = opens + 1
            /\ pc' = "probeX" /\ err' = "none"
            /\ last' = Called("running", base, corrective, selCount)
            /\ UNCHANGED closes
    /\ UNCHANGED <<scene, origPts, mi, graph, node, outPts>>

\* Lines 60-61, 62-63, 64-65: set the probe on the intermediate mesh, read
\* the base.
ProbeX ==
    /\ pc = "probeX"
    /\ origPts' = [i \in Verts |-> x_points[i]]
    /\ x_points' = ToSeq(ChainOut(origPts'), NumVerts)
    /\ pc' = "probeY"
    /\ last' = Invoke("running")
    /\ UNCHANGED <<scene, err, opens, closes, base_points, corrective_points,
                   orig_points, y_points, z_points, mi, graph, node, outPts>>

ProbeY ==
    /\ pc = "probeY"
    /\ origPts' = [i \in Verts |-> y_points[i]]
    /\ y_points' = ToSeq(ChainOut(origPts'), NumVerts)
    /\ pc' = "probeZ"
    /\ last' = Invoke("running")
    /\ UNCHANGED <<scene, err, opens, closes, base_points, corrective_points,
                   orig_points, x_points, z_points, mi, graph, node, outPts>>

ProbeZ ==
    /\ pc = "probeZ"
    /\ origPts' = [i \in Verts |-> z_points[i]]
    /\ z_points' = ToSeq(ChainOut(origPts'), NumVerts)
    /\ pc' = "restore"
    /\ last' = Invoke("running")
    /\ UNCHANGED <<scene, err, opens, closes, base_points, corrective_points,
                   orig_points, x_points, y_points, mi, graph, node, outPts>>

\* Lines 66-84: restore the intermediate mesh, duplicate the base, give the
\* duplicate the original points, create the deformer on it.
Duplicate ==
    /\ pc = "restore"
    /\ origPts' = [i \in Verts |-> orig_points[i]]
    /\ inverted' = orig_points
    /\ deformerExists' = TRUE
    /\ outPts' = orig_points
    /\ mi' = 0
    /\ pc' = "matrix"
    /\ last' = Invoke("running")
    /\ UNCHANGED <<scene, err, opens, closes, locals, plugMatrix,
                   plugDeformedPoints, corrConnected, node>>

\* Lines 100-101: elementByLogicalIndex(i).setMObject replaces the element at
\* logical index i where the array holds one and adds it where it holds none.
SetByLogicalIndex(hArray, index, value) ==
    IF index <= Len(hArray)
    THEN [hArray EXCEPT ![index] = value]
    ELSE Append(hArray, value)

\* Lines 91-101, one pass of the loop; the loop ends at point_count.
WriteMatrix(oob, outcome) ==
    /\ pc = "matrix"
    /\ IF mi >= Len(base_points)
       THEN /\ pc' = "points"
            /\ last' = Invoke("running")
            /\ UNCHANGED <<mi, plugMatrix, err>>
       ELSE IF mi + 1 > Len(corrective_points) /\ oob = "raise"
       THEN /\ pc' = "raised" /\ err' = "IndexError"
            /\ last' = Invoke("raised")
            /\ UNCHANGED <<mi, plugMatrix>>
       ELSE LET cp == IF mi + 1 > Len(corrective_points)
                      THEN GarbagePoint ELSE corrective_points[mi + 1]
                matrix == Frame(x_points[mi + 1], y_points[mi + 1],
                                z_points[mi + 1], base_points[mi + 1], cp)
            IN  /\ plugMatrix' = SetByLogicalIndex(plugMatrix, mi + 1,
                                                    Inverse(matrix, outcome))
                /\ mi' = mi + 1
                /\ pc' = "matrix"
                /\ last' = Invoke("running")
                /\ UNCHANGED err
    /\ UNCHANGED <<scene, origPts, opens, closes, locals, inverted,
                   deformerExists, plugDeformedPoints, corrConnected, node, outPts>>

\* Lines 104-107.
StorePoints ==
    /\ pc = "points"
    /\ plugDeformedPoints' = PointData(base_points)
    /\ pc' = "connect"
    /\ last' = Invoke("running")
    /\ UNCHANGED <<scene, origPts, err, opens, closes, locals, mi, inverted,
                   deformerExists, plugMatrix, corrConnected, node, outPts>>

\* Lines 109-112.
Connect ==
    /\ pc = "connect"
    /\ corrConnected' = TRUE
    /\ closes' = closes + 1
    /\ pc' = "returned"
    /\ last' = Invoke("returned")
    /\ UNCHANGED <<scene, origPts, err, opens, locals, mi, inverted,
                   deformerExists, plugMatrix, plugDeformedPoints, node, outPts>>


\* ---------------------------------------------------------------- deform
Evaluated(activate, status) ==
    [op |-> "deform", activate |-> activate, status |-> status, call |-> <<>>]

\* A vertex is left alone as soon as one component is small.
BelowEpsilonAny(delta) ==
    \/ Abs(delta[1]) < Epsilon
    \/ Abs(delta[2]) < Epsilon
    \/ Abs(delta[3]) < Epsilon

\* Lines 52-54 (A: 61-63): the test that leaves a vertex alone.
BelowEpsilon(delta) ==
    /\ Abs(delta[1]) < Epsilon
    /\ Abs(delta[2]) < Epsilon
    /\ Abs(delta[3]) < Epsilon

\* Lines 48-61 (A: 57-70): the walk of itGeo from `index` on.  An MPointArray
\* read past its end raises or yields GarbagePoint; a Python list read past
\* its end raises.
RECURSIVE PerVertex(_, _, _, _, _, _)
PerVertex(index, out, correctivePoints, snapshot, table, oob) ==
    IF index > Len(out)
    THEN [pts |-> out, status |-> "done"]
    ELSE IF (index > Len(correctivePoints) \/ index > Len(snapshot)) /\ oob = "raise"
    THEN [pts |-> out, status |-> "IndexError"]
    ELSE LET c == IF index > Len(correctivePoints)
                  THEN GarbagePoint ELSE correctivePoints[index]
             s == IF index > Len(snapshot) THEN GarbagePoint ELSE snapshot[index]
             delta == PointSub(c, s)
         IN  IF BelowEpsilon(delta)
             THEN PerVertex(index + 1, out, correctivePoints, snapshot, table, oob)
             ELSE IF index > Len(table)
             THEN [pts |-> out, status |-> "IndexError"]
             ELSE PerVertex(index + 1,
                      [out EXCEPT ![index] =
                          PointAdd(@, VectorTimesMatrix(delta, table[index]))],
                      correctivePoints, snapshot, table, oob)

\* A, lines 73-85: the jump to a logical index the array does not hold fails,
\* and the handler adds that element (the identity) with the array's builder
\* and sets the builder back on the array, which keeps the element.
jumpToElement(hArray, index) ==
    IF index <= Len(hArray) THEN hArray ELSE Append(hArray, MMatrix)

\* A, lines 41-43: the inversionMatrix array after the jumps to 0..numVertices-1.
RECURSIVE JumpedArray(_, _, _)
JumpedArray(hArray, index, numVertices) ==
    IF index > numVertices
    THEN hArray
    ELSE JumpedArray(jumpToElement(hArray, index), index + 1, numVertices)

\* A, lines 41-43: the numVertices matrices read after each jump.
ReadByLogicalIndex(numVertices) ==
    [i \in 1..numVertices |-> JumpedArray(plugMatrix, 1, numVertices)[i]]

\* B, lines 33-39: the elements the plug holds.
ReadByArrayElement == plugMatrix

\* The activate attribute is not consulted.
NeverReturnsEarly(run) == FALSE

\* A, lines 22-24: if not run: return.
ReturnsEarly(run) == ~run

\* plug-ins/cvShapeInverter.py, deform (lines 21-70).
deformA(run, oob) ==
    /\ rev = "A" /\ deformerExists
    /\ (run /\ ~initialized /\ plugDeformedPoints.isNull) =>
           Len(matrices) < MaxStale * NumVerts
    /\ IF ReturnsEarly(run)
       THEN /\ outPts' = inverted
            /\ last' = Evaluated(IF run THEN "on" ELSE "off", "skipped")
            /\ UNCHANGED <<node, plugMatrix>>
       ELSE LET table == IF initialized THEN matrices
                         ELSE matrices \o ReadByLogicalIndex(Len(inverted))
            IN  IF ~initialized /\ plugDeformedPoints.isNull
                THEN /\ matrices' = table
                     /\ plugMatrix' = JumpedArray(plugMatrix, 1, Len(inverted))
                     /\ outPts' = inverted
                     /\ last' = Evaluated(IF run THEN "on" ELSE "off", "RuntimeError")
                     /\ UNCHANGED <<initialized, deformedPoints>>
                ELSE LET snapshot == IF initialized THEN deformedPoints
                                     ELSE plugDeformedPoints.pts
                         walk == PerVertex(1, inverted, corrPts, snapshot, table, oob)
                     IN  /\ matrices' = table
                         /\ plugMatrix' = IF initialized THEN plugMatrix
                                          ELSE JumpedArray(plugMatrix, 1, Len(inverted))
                         /\ deformedPoints' = snapshot
                         /\ initialized' = TRUE
                         /\ IF ~corrConnected
                            THEN /\ outPts' = inverted
                                 /\ last' = Evaluated(IF run THEN "on" ELSE "off",
                                                      "RuntimeError")
                            ELSE /\ outPts' = walk.pts
                                 /\ last' = Evaluated(IF run THEN "on" ELSE "off",
                                                      walk.status)
    /\ UNCHANGED <<scene, origPts, pc, err, opens, closes, locals, mi, inverted,
                   deformerExists, plugDeformedPoints, corrConnected>>

\* plug-ins/cvshapeinverter_plugin.py, deform (lines 20-61).
deformB(oob) ==
    /\ rev = "B" /\ deformerExists
    /\ (~initialized /\ plugDeformedPoints.isNull) =>
           Len(matrices) < MaxStale * NumVerts
    /\ IF ~corrConnected
       THEN /\ outPts' = inverted
            /\ last' = Evaluated("none", "not connected")
            /\ UNCHANGED node
       ELSE IF ~initialized /\ Len(ReadByArrayElement) = 0
       THEN /\ outPts' = inverted
            /\ last' = Evaluated("none", "no data")
            /\ UNCHANGED node
       ELSE LET table == IF initialized THEN matrices
                         ELSE matrices \o ReadByArrayElement
            IN  IF ~initialized /\ plugDeformedPoints.isNull
                THEN /\ matrices' = table
                     /\ outPts' = inverted
                     /\ last' = Evaluated("none", "RuntimeError")
                     /\ UNCHANGED <<initialized, deformedPoints>>
                ELSE LET snapshot == IF initialized THEN deformedPoints
                                     ELSE plugDeformedPoints.pts
                         walk == PerVertex(1, inverted, corrPts, snapshot, table, oob)
                     IN  /\ matrices' = table
                         /\ deformedPoints' = snapshot
                         /\ initialized' = TRUE
                         /\ outPts' = walk.pts
                         /\ last' = Evaluated("none", walk.status)
    /\ UNCHANGED <<scene, origPts, pc, err, opens, closes, locals, mi, graph>>

\* ------------------------------------------------------------------ spec
Next ==
    \/ \E base \in {"None", "given"}, corrective \in {"None", "given"},
          selCount \in 0..MaxSel : InvertBegin(base, corrective, selCount)
    \/ ProbeX
    \/ ProbeY
    \/ ProbeZ
    \/ Duplicate
    \/ \E oob \in OobOutcomes, outcome \in SingularOutcomes : WriteMatrix(oob, outcome)
    \/ StorePoints
    \/ Connect
    \/ \E run \in BOOLEAN, oob \in OobOutcomes : deformA(run, oob)
    \/ \E oob \in OobOutcomes : deformB(oob)

Spec == Init /\ [][Next]_vars

\* ---------------------------------------------------------------- claims
Errors == {"RuntimeError", "IndexError"}

Untouched ==
    /\ origPts = RestPoints
    /\ inverted = <<>>
    /\ ~deformerExists
    /\ plugMatrix = <<>>
    /\ plugDeformedPoints.isNull
    /\ ~corrConnected

\* Some component of the delta reaches the threshold.
Moved(delta) ==
    \E k \in 1..3 : delta[k] >= Epsilon \/ delta[k] <= -Epsilon

DeltaAt(i) == PointSub(corrPts[i], deformedPoints[i])

\* point + delta * m, component by component.
Shifted(point, delta, m) ==
    IF m.d = 0 THEN NaNPoint
    ELSE [c \in 1..3 |->
            point[c] + ((delta[1] * m.n[1][c] + delta[2] * m.n[2][c]
                         + delta[3] * m.n[3][c]) \div m.d)]

IsIdentity4(m) ==
    /\ m.d # 0
    /\ \A r \in 1..4, c \in 1..4 : m.n[r][c] = IF r = c THEN m.d ELSE 0

IsLinearIdentity(m) ==
    /\ m.d # 0
    /\ \A r \in 1..3, c \in 1..4 : m.n[r][c] = IF r = c THEN m.d ELSE 0
    /\ m.n[4][4] = m.d

IdentityChain == \A i \in Verts : chain[i] = "identity"

\* The corrective point the solver read for vertex i.
SolvedWith(i) ==
    IF i <= Len(corrective_points) THEN corrective_points[i] ELSE GarbagePoint

WalkDone == last.op = "deform" /\ last.status = "done"

\* C1: an evaluation made with activate false returns the geometry as it
\* came in and changes nothing of the instance: not the initialized flag,
\* not the cached matrices, not the cached points, not the matrix array.
C1_DisabledEvaluationIsInert ==
    [][(last'.op = "deform" /\ last'.activate = "off")
         => (/\ outPts' = inverted
             /\ UNCHANGED <<initialized, matrices, deformedPoints, plugMatrix>>)]_vars

\* A disabled evaluation has run on a fully populated node, which is still
\* uninitialized with empty caches.
C1_Witness ==
    /\ last.op = "deform" /\ last.activate = "off"
    /\ Len(plugMatrix) = NumVerts /\ ~plugDeformedPoints.isNull /\ corrConnected
    /\ ~initialized /\ matrices = <<>> /\ deformedPoints = <<>>

\* C2: the node is initialized only with a non-empty cached table of exactly
\* as many entries as the evaluated mesh has vertices, and as many cached
\* points; and an evaluation of an uninitialized node whose matrix array is
\* empty or does not hold that many elements leaves it uninitialized.
C2_ReadyOnlyWithAlignedCache ==
    [][/\ initialized' =>
             /\ Len(matrices') > 0
             /\ Len(matrices') = Len(inverted')
             /\ Len(deformedPoints') = Len(inverted')
       /\ (last'.op = "deform" /\ ~initialized /\ Len(plugMatrix) # Len(inverted))
             => ~initialized']_vars

\* C3: the cache is written only in the step that initializes the node, and
\* an initialized node stays initialized with its cache as it is.
C3_CacheWrittenOnceAtTransition ==
    [][/\ initialized => (initialized' /\ UNCHANGED <<matrices, deformedPoints>>)
       /\ (<<matrices, deformedPoints>>' # <<matrices, deformedPoints>>)
             => (~initialized /\ initialized')]_vars

\* C4: an evaluation that read a corrective point array whose length is not
\* the vertex count ends in an error and writes no position.  Stated for an
\* array longer than the vertex count, where every read of the walk is
\* defined.
C4_CorrectiveLengthMismatchIsFatal ==
    (/\ last.op = "deform" /\ last.status \in {"done", "IndexError"}
     /\ Len(corrPts) > Len(inverted))
        => (last.status \in Errors /\ outPts = inverted)

\* C5: an evaluation of an uninitialized node whose corrective mesh is not
\* connected, or whose matrix array or point data is empty, raises nothing,
\* writes no position and leaves the instance as it is.
C5_UnwiredEvaluationIsNoOp ==
    [][(/\ last'.op = "deform"
        /\ ~initialized
        /\ (~corrConnected \/ Len(plugMatrix) = 0 \/ plugDeformedPoints.isNull))
         => (/\ last'.status \notin Errors
             /\ outPts' = inverted
             /\ UNCHANGED <<initialized, matrices, deformedPoints>>)]_vars

\* C6: where the plug-in file loads, a call without both arguments and
\* without exactly two selected nodes raises the usage error, a base without
\* a connected intermediate shape raises too, and in both cases nothing of
\* the scene has been touched.
C6_UsageErrorsLeaveSceneUntouched ==
    loadPlugin(rev) = "loaded" =>
        /\ (last.op = "invert" /\ last.call # <<>>
            /\ (last.call[1] = "None" \/ last.call[2] = "None") /\ last.call[3] # 2)
              => (pc = "raised" /\ err = "Select base then corrective" /\ Untouched)
        /\ ~intermediate => (pc \in {"idle", "raised"} /\ Untouched)

\* C7: no entry the solver stored is the result of inverting a singular
\* frame (the entry of a singular frame is the identity fallback), and no
\* output position is non-finite.
C7_SingularFramesHandled ==
    /\ \A i \in 1..mi :
          IsSingular(Frame(x_points[i], y_points[i], z_points[i],
                           base_points[i], SolvedWith(i)))
             => plugMatrix[i] = MMatrix
    /\ \A i \in 1..Len(outPts) : IsFinite(outPts[i])

\* C8 as stated: under an identity chain every inverse the solver stored is the 4x4
\* identity, and a delta at or above the threshold is added unchanged.
C8_IdentityChainGivesIdentity ==
    IdentityChain =>
        /\ \A i \in 1..mi : IsIdentity4(plugMatrix[i])
        /\ WalkDone =>
              \A i \in 1..Len(outPts) :
                 (i <= Len(corrPts) /\ Moved(DeltaAt(i)))
                    => outPts[i] = PointAdd(inverted[i], DeltaAt(i))

\* C8 amended: under an identity chain every inverse the solver stored has the identity
\* as its linear block and (0,0,0,1) as its last column, its fourth row is
\* the negated corrective point, so it is the 4x4 identity exactly where
\* that point is the origin; a delta at or above the threshold is added
\* unchanged.
C8_IdentityChainGivesLinearIdentity ==
    IdentityChain =>
        /\ \A i \in 1..mi :
              /\ IsLinearIdentity(plugMatrix[i])
              /\ \A c \in 1..3 :
                    plugMatrix[i].n[4][c] * ProbeStep = -(SolvedWith(i)[c]) * plugMatrix[i].d
              /\ IsIdentity4(plugMatrix[i]) <=> SolvedWith(i) = <<0, 0, 0>>
        /\ WalkDone =>
              \A i \in 1..Len(outPts) :
                 (i <= Len(corrPts) /\ Moved(DeltaAt(i)))
                    => outPts[i] = PointAdd(inverted[i], DeltaAt(i))

\* Under an identity chain the table is complete, one entry is not the 4x4
\* identity, and an evaluation has moved a vertex by its delta.
C8_Witness ==
    /\ IdentityChain /\ baseNode = "transform"
    /\ mi = NumVerts
    /\ \E i \in 1..mi : ~IsIdentity4(plugMatrix[i])
    /\ \E i \in 1..mi : IsIdentity4(plugMatrix[i])
    /\ WalkDone
    /\ \E i \in 1..Len(outPts) :
          i <= Len(corrPts) /\ Moved(DeltaAt(i)) /\ outPts[i] # inverted[i]

\* C9: after a completed walk of an initialized node, a vertex whose delta is
\* below the threshold in all three components keeps its input position
\* whatever its matrix, and every other vertex is at its input position plus
\* the delta times its cached matrix.
C9_EpsilonSkipElseTransformedDelta ==
    WalkDone =>
        /\ initialized
        /\ \A i \in 1..Len(outPts) :
              i <= Len(corrPts) =>
                 IF Moved(DeltaAt(i))
                 THEN outPts[i] = Shifted(inverted[i], DeltaAt(i), matrices[i])
                 ELSE outPts[i] = inverted[i]

\* A completed walk in which one vertex with a non-zero delta below the
\* threshold and a non-identity matrix stayed, and another vertex moved.
C9_Witness ==
    /\ WalkDone
    /\ \E i \in 1..Len(outPts) :
          /\ i <= Len(corrPts)
          /\ DeltaAt(i) # <<0, 0, 0>> /\ ~Moved(DeltaAt(i))
          /\ ~IsLinearIdentity(matrices[i])
          /\ outPts[i] = inverted[i]
    /\ \E j \in 1..Len(outPts) :
          j <= Len(corrPts) /\ Moved(DeltaAt(j)) /\ outPts[j] # inverted[j]

\* C10: the invocation never issues more closeChunk than openChunk, and has
\* issued as many of each when it returns or raises.
C10_UndoChunksBalanced ==
    /\ closes <= opens
    /\ pc \in {"returned", "raised"} => closes = opens

====
